---------------------------- MODULE Spec2Model ----------------------------
(***************************************************************************)
(* Model of the oneAPI environment configurator (OneApiEnv / MultiRootEnv) *)
(* and of the tasks/launch generators (LaunchConfigurator).                *)
(*                                                                         *)
(* Text (keys, values, the environment dump) is a sequence of one-letter   *)
(* strings, so that splitting, indexOf and substr are computed as the code *)
(* computes them.  A path is a sequence of strings as well.                *)
(***************************************************************************)
EXTENDS Integers, Sequences, FiniteSets, Bags, TLC

VARIABLES
    win32,          \* process.platform === 'win32'
    world,          \* what the script locator sees: setting, scans, files
    findRes,        \* outcome of the last findSetvarsPath call
    findAns,        \* the user's answers during that call
    procEnv,        \* process.env
    initialEnv,     \* OneApiEnv.initialEnv
    collection,     \* context.environmentVariableCollection
    activeEnv,      \* OneApiEnv.activeEnv
    configsPaths,   \* OneApiEnv._setvarsConfigsPaths (<<>>: undefined)
    envCollection,  \* MultiRootEnv.envCollection
    storage,        \* Storage over context.workspaceState
    runs,           \* the initializeEnvironment calls in progress (a bag)
    issued,         \* how many commands the user has issued
    last,           \* the command step that produced the current state
    tasksDoc,       \* the 'tasks' section of the workspace configuration
    tasksPending,   \* updates of 'tasks' issued and not yet landed
    launchDoc,      \* 'configurations' of the 'launch' section
    launchPending,  \* updates of 'configurations' issued and not yet landed
    debugConfig,    \* the module-level debugConfig object
    gen,            \* the generator command in progress and its locals
    picks           \* how many targets the user has picked

findVars == <<world, findRes, findAns>>
envVars == <<procEnv, initialEnv, collection, activeEnv, configsPaths,
             envCollection, storage, runs, issued, last>>
genVars == <<tasksDoc, tasksPending, launchDoc, launchPending, debugConfig,
             gen, picks>>
vars == <<win32, findVars, envVars, genVars>>

-----------------------------------------------------------------------------
(* Bounds *)

\* Most candidates a PATH scan or a home-directory scan lists.
MaxCandidates == 2

\* Most targets and executables the user picks in the generators.
MaxPicks == 2

\* Most initializeEnvironment calls in progress at the same time.
MaxRuns == 2

\* Most commands the user issues in one behaviour.
MaxCmds == 3

-----------------------------------------------------------------------------
(* Generic helpers *)

Range(s) == {s[i] : i \in 1..Len(s)}

Last(s) == s[Len(s)]

\* `undefined` where a path is expected (falsy, like the empty string).
NoPath == <<>>

-----------------------------------------------------------------------------
(* Script locator: OneApiEnv.findSetvarsPath *)

\* setvars.${process.platform === 'win32' ? 'bat' : 'sh'}
SetvarsName(w32) == IF w32 THEN "setvars.bat" ELSE "setvars.sh"

\* path.join(dir, file)
Join(dir, file) == dir \o <<file>>

\* The directory configured as ONEAPI_ROOT in the extension settings.
SettingRoot == <<"settings_root">>

\* The i-th line of the PATH scan (a directory ending in oneapi).
PathDir(i) == <<"path", ToString(i), "oneapi">>

\* The i-th line of the find "${HOME}" scan (a setvars.sh file).
HomeFile(i) == <<"home", ToString(i), "oneapi", "setvars.sh">>

\* The value of process.env.ONEAPI_ROOT when it is set.
EnvRootDir == <<"env_root">>

\* `${process.env.ONEAPI_ROOT}/setvars.*`; an unset variable prints as
\* the word undefined.
EnvRootScript(w) ==
    Join(IF w.envRoot THEN EnvRootDir ELSE <<"undefined">>, SetvarsName(w.win32))

GlobalScript(w) ==
    IF w.win32 THEN <<"ProgramFiles(x86)", "Intel", "oneAPI", "setvars.bat">>
               ELSE <<"opt", "intel", "oneapi", "setvars.sh">>

UserScript == <<"HOME", "intel", "oneapi", "setvars.sh">>

\* execSync(...).toString().split('\n') after paths.pop(): n lines.
PathScanLines(w) == [i \in 1..w.pathScan.n |-> PathDir(i)]

HomeScanLines(w) == [i \in 1..w.homeScan.n |-> HomeFile(i)]

existsSync(w, p) == p \in w.files

\* The sources in the order of the code's comments 0..5.
SourceOrder == <<"setting", "PATH", "ONEAPI_ROOT", "global", "user", "home">>

\* State of one findSetvarsPath call: `done` once a return was executed.
FindStart ==
    [result |-> NoPath, source |-> "none", consulted |-> <<>>,
     prompts |-> <<>>, done |-> FALSE]

Return(st, src, p) == [st EXCEPT !.result = p, !.source = src, !.done = TRUE]

Consult(st, src) == [st EXCEPT !.consulted = Append(@, src)]

Prompt(st, what) == [st EXCEPT !.prompts = Append(@, what)]

\* 0. Check oneAPI Root Path from setting.json
SettingStep(w, ans, st) ==
    IF st.done \/ ~w.rootSet THEN st
    ELSE LET c == Consult(st, "setting")
             p == Join(SettingRoot, SetvarsName(w.win32))
         IN  IF existsSync(w, p) THEN Return(c, "setting", p)
             ELSE LET q == Prompt(c, "continue")
                  IN  IF ans.cont # "Continue" THEN Return(q, "none", NoPath)
                      ELSE q

\* The PATH step asking the user also when the scan lists one directory.
PathScanStepAsksForOne(w, ans, st) ==
    IF st.done THEN st
    ELSE LET c == Consult(st, "PATH")
             paths == PathScanLines(w)
         IN  IF w.pathScan.throws THEN Return(c, "none", NoPath)
             ELSE IF Len(paths) > 0
             THEN LET q == Prompt(c, "candidates")
                  IN  IF ans.pickPath = 0 THEN Return(q, "none", NoPath)
                      ELSE Return(q, "PATH", paths[ans.pickPath])
             ELSE c

\* 1. check $PATH for setvars.sh
PathScanStep(w, ans, st) ==
    IF st.done THEN st
    ELSE LET c == Consult(st, "PATH")
             paths == PathScanLines(w)
         IN  IF w.pathScan.throws THEN Return(c, "none", NoPath)
             ELSE IF Len(paths) > 0 /\ Len(paths) # 1
             THEN LET q == Prompt(c, "candidates")
                  IN  IF ans.pickPath = 0 THEN Return(q, "none", NoPath)
                      ELSE Return(q, "PATH", paths[ans.pickPath])
             ELSE IF Len(paths) = 1
             THEN Return(c, "PATH", Join(paths[1], SetvarsName(w.win32)))
             ELSE c

\* 2. check in $ONEAPI_ROOT
EnvRootStep(w, ans, st) ==
    IF st.done THEN st
    ELSE LET c == Consult(st, "ONEAPI_ROOT")
         IN  IF existsSync(w, EnvRootScript(w))
             THEN Return(c, "ONEAPI_ROOT", EnvRootScript(w))
             ELSE c

\* 3. check in global installation path
GlobalStep(w, ans, st) ==
    IF st.done THEN st
    ELSE LET c == Consult(st, "global")
         IN  IF existsSync(w, GlobalScript(w))
             THEN Return(c, "global", GlobalScript(w))
             ELSE c

\* 4. check in local installation path
UserStep(w, ans, st) ==
    IF st.done \/ w.win32 THEN st
    ELSE LET c == Consult(st, "user")
         IN  IF existsSync(w, UserScript)
             THEN Return(c, "user", UserScript)
             ELSE c

\* 5. check in local-custom installation path
HomeScanStep(w, ans, st) ==
    IF st.done \/ w.win32 THEN st
    ELSE LET c == Consult(st, "home")
             paths == HomeScanLines(w)
         IN  IF w.homeScan.throws THEN Return(c, "none", NoPath)
             ELSE IF Len(paths) > 0 /\ Len(paths) # 1
             THEN LET q == Prompt(c, "candidates")
                  IN  IF ans.pickHome # 0
                      THEN Return(q, "home", paths[ans.pickHome])
                      ELSE q
             ELSE IF Len(paths) = 1
             THEN Return(c, "home", paths[1])
             ELSE c

\* The same steps with the global installation path probed before
\* $ONEAPI_ROOT.
findSetvarsPathGlobalFirst(w, ans) ==
    LET s0 == SettingStep(w, ans, FindStart)
        s1 == PathScanStep(w, ans, s0)
        s2 == GlobalStep(w, ans, s1)
        s3 == EnvRootStep(w, ans, s2)
        s4 == UserStep(w, ans, s3)
        s5 == HomeScanStep(w, ans, s4)
    IN  [s5 EXCEPT !.done = TRUE]

findSetvarsPath(w, ans) ==
    LET s0 == SettingStep(w, ans, FindStart)
        s1 == PathScanStep(w, ans, s0)
        s2 == EnvRootStep(w, ans, s1)
        s3 == GlobalStep(w, ans, s2)
        s4 == UserStep(w, ans, s3)
        s5 == HomeScanStep(w, ans, s4)
    IN  [s5 EXCEPT !.done = TRUE]

\* Every script file the locator can probe with existsSync.
ProbedFiles(w32) ==
    {Join(SettingRoot, SetvarsName(w32)),
     Join(EnvRootDir, SetvarsName(w32)),
     GlobalScript([win32 |-> w32])}
    \cup (IF w32 THEN {} ELSE {UserScript})
    \cup {Join(PathDir(i), SetvarsName(w32)) : i \in 1..MaxCandidates}

Scans == [throws : BOOLEAN, n : 0..MaxCandidates]

Worlds(w32) ==
    [win32 : {w32}, rootSet : BOOLEAN, envRoot : BOOLEAN,
     pathScan : {s \in Scans : s.throws => s.n = 0},
     homeScan : {s \in Scans : (s.throws \/ w32) => s.n = 0},
     files : SUBSET ProbedFiles(w32)]

FindAnswers ==
    [cont : {"Continue", "Skip setvars search", "dismissed"},
     pickPath : 0..MaxCandidates, pickHome : 0..MaxCandidates]

\* The answers that name a listed candidate (0: the prompt was dismissed).
AnswersFor(w) ==
    {a \in FindAnswers : a.pickPath <= w.pathScan.n /\ a.pickHome <= w.homeScan.n}

-----------------------------------------------------------------------------
(* Text, as the 'data' handler of execSetvarsCatch reads it *)

NUL == "NUL"
CR == "CR"
LF == "LF"

Min(S) == CHOOSE x \in S : \A y \in S : x <= y

\* l.indexOf(c): 0-based, -1 when c is not in l.
IndexOf(l, c) ==
    IF \E i \in 1..Len(l) : l[i] = c
    THEN Min({i \in 1..Len(l) : l[i] = c}) - 1
    ELSE -1

\* l.substr(start, length): a negative length gives the empty string.
Substr(l, start, length) ==
    IF length <= 0 THEN <<>> ELSE SubSeq(l, start + 1, start + length)

\* l.substr(start)
SubstrFrom(l, start) == SubSeq(l, start + 1, Len(l))

\* v.replace(c, ""): removes the first occurrence of c only.
RemoveFirst(v, c) ==
    LET i == IndexOf(v, c)
    IN  IF i < 0 THEN v ELSE SubSeq(v, 1, i) \o SubSeq(v, i + 2, Len(v))

\* d.split(sep)
RECURSIVE Split(_, _)
Split(d, sep) ==
    LET i == IndexOf(d, sep)
    IN  IF i < 0 THEN <<d>>
        ELSE <<SubSeq(d, 1, i)>> \o Split(SubSeq(d, i + 2, Len(d)), sep)

Prefixes(s) == {SubSeq(s, 1, n) : n \in 0..Len(s)}

-----------------------------------------------------------------------------
(* Environment maps: process.env, initialEnv, stored deltas *)

EmptyMap == [k \in {} |-> <<>>]

Put(m, k, v) == [x \in DOMAIN m \cup {k} |-> IF x = k THEN v ELSE m[x]]

Remove(m, k) == [x \in DOMAIN m \ {k} |-> m[x]]

\* m overridden by n
Override(m, n) ==
    [x \in DOMAIN m \cup DOMAIN n |-> IF x \in DOMAIN n THEN n[x] ELSE m[x]]

\* every variable counts as unset
AlwaysFalsy(env, k) == TRUE

\* !env[k]: unset or the empty string
Falsy(env, k) == k \notin DOMAIN env \/ env[k] = <<>>

SETVARS_COMPLETED == <<"S">>
ONEAPI_ROOT == <<"O", "R">>
PATH == <<"P">>
EMPTYVAR == <<"E">>

\* Every variable name that can come to exist, in the order of a dump;
\* <<"R">> is what is left of ONEAPI_ROOT in a chunk that starts inside it.
KeyOrder == <<SETVARS_COMPLETED, ONEAPI_ROOT, PATH, EMPTYVAR, <<"R">>>>

Separator(w32) == IF w32 THEN LF ELSE NUL

\* One line of `env -0` (posix) or of `set` (win32, lines end in CR LF).
DumpLine(k, v, w32) ==
    k \o <<"=">> \o v \o (IF w32 THEN <<CR, LF>> ELSE <<NUL>>)

RECURSIVE DumpFrom(_, _, _)
DumpFrom(i, env, w32) ==
    IF i > Len(KeyOrder) THEN <<>>
    ELSE (IF KeyOrder[i] \in DOMAIN env
          THEN DumpLine(KeyOrder[i], env[KeyOrder[i]], w32) ELSE <<>>)
         \o DumpFrom(i + 1, env, w32)

\* The text the subprocess writes: its whole environment.
Dump(env, w32) == DumpFrom(1, env, w32)

\* The configuration file listed in the SETVARS_CONFIG setting.
ConfigFile == <<"cfg", "c1.txt">>

\* path.parse(p).base
Base(p) == Last(p)

\* What sourcing the script exports, without and with the config file.
ScriptExports(cfg) ==
    IF cfg = NoPath
    THEN Put(Put(EmptyMap, SETVARS_COMPLETED, <<"1">>), ONEAPI_ROOT, <<"x", "y">>)
    ELSE Put(Put(Put(Put(EmptyMap, SETVARS_COMPLETED, <<"1">>),
                     ONEAPI_ROOT, <<"y">>), PATH, <<>>), EMPTYVAR, <<"y">>)

-----------------------------------------------------------------------------
(* The collection: variable -> mutator *)

Mutator(v, t) == [value |-> v, type |-> t]

\* The key/value content of a collection.
Values(col) == [k \in DOMAIN col |-> col[k].value]

\* The body of vars.forEach in the stdout 'data' handler, for one line.
HandleLine(l, st) ==
    LET e == IndexOf(l, "=")
        k == Substr(l, 0, e)
        v == RemoveFirst(SubstrFrom(l, e + 1), CR)
    IN  IF k = <<>> \/ v = <<>> THEN st
        ELSE [collection |->
                 IF k \notin DOMAIN st.env \/ st.env[k] # v
                 THEN IF Falsy(st.env, k)
                      THEN Put(st.collection, k, Mutator(v, "Append"))
                      ELSE Put(st.collection, k, Mutator(v, "Replace"))
                 ELSE st.collection,
              env |-> Put(st.env, k, v)]

RECURSIVE HandleLines(_, _)
HandleLines(lines, st) ==
    IF lines = <<>> THEN st
    ELSE HandleLines(Tail(lines), HandleLine(Head(lines), st))

\* childProcess.stdout.on("data", d => ...)
OnData(d, col, env, w32) ==
    HandleLines(Split(d, Separator(w32)), [collection |-> col, env |-> env])

-----------------------------------------------------------------------------
(* One initializeEnvironment call: getEnvironment, runSetvars,             *)
(* execSetvarsCatch and the store that follows                             *)

NewRun ==
    [pc |-> "progress", isDefault |-> TRUE, cancelled |-> FALSE, child |-> "none",
     cfg |-> NoPath, rem |-> <<>>, envBefore |-> EmptyMap, dumpEnv |-> EmptyMap,
     startedEmpty |-> FALSE, killedRunning |-> FALSE, lateData |-> FALSE]

NoOp == [op |-> "none", name |-> "", fresh |-> FALSE, differed |-> FALSE]

\* if (this.initialEnv.get("SETVARS_COMPLETED")): the guard of
\* initializeEnvironment
InitializedOutside == ~Falsy(initialEnv, SETVARS_COMPLETED)

\* getEnvironment up to the call of runSetvars: TRUE when a script path is
\* at hand, found by findSetvarsPath or picked in the open dialog.
HasScript(ans, picked) == findSetvarsPath(world, ans).result # NoPath \/ picked

InProgress == BagCardinality(runs)

AddRun(new) == runs (+) SetToBag({new})

RemoveRun(old) == runs (-) SetToBag({old})

ReplaceRun(old, new) == (runs (-) SetToBag({old})) (+) SetToBag({new})

\* The runs at the place pc of runSetvars / execSetvarsCatch.
RunsAt(pc) == {run \in BagToSet(runs) : run.pc = pc}

\* The command initializeDefaultEnvironment / initializeCustomEnvironment up
\* to the first prompt or progress notification of runSetvars. lim bounds
\* the commands issued and the calls in progress.
InitializeEnvironment(lim, isDefault) ==
    /\ issued < lim.cmds
    /\ InProgress < lim.runs
    /\ issued' = issued + 1
    /\ \E ans \in AnswersFor(world), picked \in BOOLEAN :
          IF InitializedOutside \/ ~HasScript(ans, picked)
          THEN /\ last' = [NoOp EXCEPT !.op = "refused"]
               /\ UNCHANGED <<runs, activeEnv>>
          ELSE /\ last' = NoOp
               /\ IF isDefault
                  THEN /\ runs' = AddRun(NewRun)
                       /\ UNCHANGED activeEnv
                  ELSE IF configsPaths = <<>>
                  THEN /\ runs' = AddRun([NewRun EXCEPT !.isDefault = FALSE])
                       /\ activeEnv' = "Default"
                  ELSE /\ runs' = AddRun([NewRun EXCEPT !.pc = "cfg",
                                                        !.isDefault = FALSE])
                       /\ UNCHANGED activeEnv
    /\ UNCHANGED <<genVars, win32, findVars, procEnv, initialEnv, collection,
                   configsPaths, envCollection, storage>>

\* getSetvarsConfigPath: the answer to the configuration-file prompt
\* (0: 'Skip' or dismissed), then the assignment of activeEnv in runSetvars.
ConfigAnswer ==
    /\ \E run \in RunsAt("cfg"), i \in 0..Len(configsPaths) :
          /\ activeEnv' = IF i = 0 THEN "Default" ELSE Base(configsPaths[i])
          /\ runs' = ReplaceRun(run, [run EXCEPT !.pc = "progress",
                                                 !.cfg = IF i = 0 THEN NoPath
                                                         ELSE configsPaths[i]])
    /\ last' = NoOp
    /\ UNCHANGED <<genVars, win32, findVars, procEnv, initialEnv, collection,
                   configsPaths, envCollection, storage, issued>>

\* The user presses Cancel after the progress notification is up and
\* before its task has run: the token is cancelled, no listener is set yet.
CancelEarly ==
    /\ \E run \in RunsAt("progress") :
          /\ ~run.cancelled
          /\ runs' = ReplaceRun(run, [run EXCEPT !.cancelled = TRUE])
    /\ last' = NoOp
    /\ UNCHANGED <<genVars, win32, findVars, procEnv, initialEnv, collection,
                   activeEnv, configsPaths, envCollection, storage, issued>>

\* The task of withProgress: the cancellation listener of runSetvars is
\* registered, then execSetvarsCatch either leaves its promise pending (the
\* token is already cancelled) or spawns the subprocess, which inherits
\* process.env, and registers the 'close', 'error', 'data' and kill
\* listeners.
Spawn ==
    /\ \E run \in RunsAt("progress") :
          IF run.cancelled
          THEN /\ collection' = EmptyMap
               /\ runs' = ReplaceRun(run, [run EXCEPT !.pc = "hung"])
          ELSE LET after == Override(procEnv, ScriptExports(run.cfg))
               IN  /\ runs' = ReplaceRun(run,
                                 [run EXCEPT !.pc = "exec",
                                             !.child = "running",
                                             !.rem = Dump(after, win32),
                                             !.envBefore = procEnv,
                                             !.dumpEnv = after,
                                             !.startedEmpty = (collection = EmptyMap)])
                   /\ UNCHANGED collection
    /\ last' = NoOp
    /\ UNCHANGED <<genVars, win32, findVars, procEnv, initialEnv, activeEnv,
                   configsPaths, envCollection, storage, issued>>

\* Every part of its pending output the subprocess may have written when it
\* ends early.
AnyPart(rem) == Prefixes(rem)

\* All of the pending output, or none of it.
AllOrNothing(rem) == {<<>>, rem}

\* Every way the stream may cut its next chunk out of the pending output.
AnyChunk(rem) == 1..Len(rem)

\* The pending output in a single chunk.
WholeChunk(rem) == {Len(rem)}

\* How the output is cut: "anywhere" (a stream gives no more), or "whole"
\* (all the pending output at once).
Chunks(cut, rem) == IF cut = "anywhere" THEN AnyChunk(rem) ELSE WholeChunk(rem)

Parts(cut, rem) == IF cut = "anywhere" THEN AnyPart(rem) ELSE AllOrNothing(rem)

\* A 'data' event carrying the next n characters of the output, n being
\* one of Chunks(cut, pending output).
Data(cut) ==
    /\ \E run \in RunsAt("exec") :
          /\ run.rem # <<>>
          /\ \E n \in Chunks(cut, run.rem) :
                LET d == SubSeq(run.rem, 1, n)
                    st == OnData(d, collection, procEnv, win32)
                IN  /\ collection' = st.collection
                    /\ procEnv' = st.env
                    /\ runs' = ReplaceRun(run,
                                  [run EXCEPT !.rem = SubstrFrom(@, n),
                                              !.lateData = run.cancelled])
    /\ last' = NoOp
    /\ UNCHANGED <<genVars, win32, findVars, initialEnv, activeEnv,
                   configsPaths, envCollection, storage, issued>>

\* The subprocess ends with exit code 0: all its output is written.
ChildExit0 ==
    /\ \E run \in RunsAt("exec") :
          /\ run.child = "running"
          /\ runs' = ReplaceRun(run, [run EXCEPT !.child = "exit0"])
    /\ last' = NoOp
    /\ UNCHANGED <<genVars, win32, findVars, procEnv, initialEnv, collection,
                   activeEnv, configsPaths, envCollection, storage, issued>>

\* The subprocess ends with a non-zero exit code, having written one of
\* Parts(cut, pending output).
ChildFail(cut) ==
    /\ \E run \in RunsAt("exec") :
          /\ run.child = "running"
          /\ \E written \in Parts(cut, run.rem) :
                runs' = ReplaceRun(run, [run EXCEPT !.child = "exitN",
                                                    !.rem = written])
    /\ last' = NoOp
    /\ UNCHANGED <<genVars, win32, findVars, procEnv, initialEnv, collection,
                   activeEnv, configsPaths, envCollection, storage, issued>>

\* The user presses Cancel while execSetvarsCatch waits: the listeners run
\* in the order of their registration, collection.clear() and then
\* childProcess.kill(). A running subprocess dies of the signal; what it had
\* written, one of Parts(cut, pending output), is still delivered. A
\* subprocess that has already ended is not affected.
Cancel(cut) ==
    /\ \E run \in RunsAt("exec") :
          /\ ~run.cancelled
          /\ IF run.child = "running"
             THEN \E written \in Parts(cut, run.rem) :
                     runs' = ReplaceRun(run, [run EXCEPT !.cancelled = TRUE,
                                                         !.child = "killed",
                                                         !.killedRunning = TRUE,
                                                         !.rem = written])
             ELSE runs' = ReplaceRun(run, [run EXCEPT !.cancelled = TRUE])
    /\ collection' = EmptyMap
    /\ last' = NoOp
    /\ UNCHANGED <<genVars, win32, findVars, procEnv, initialEnv, activeEnv,
                   configsPaths, envCollection, storage, issued>>

\* if (signal) only: a close with a non-zero exit code does not clear.
CloseClearsOnSignalOnly(child) == child = "killed"

\* if (code) only: a close after a signal does not clear.
CloseClearsOnCodeOnly(child) == child = "exitN"

\* if (code || signal) in the 'close' handler
CloseClears(child) == child # "exit0"

\* The 'close' event, once the subprocess has ended and its output is read:
\* the promise of execSetvarsCatch resolves.
Close ==
    /\ \E run \in RunsAt("exec") :
          /\ run.child \in {"exit0", "exitN", "killed"}
          /\ run.rem = <<>>
          /\ collection' = IF CloseClears(run.child) THEN EmptyMap ELSE collection
          /\ runs' = ReplaceRun(run, [run EXCEPT !.pc = "post"])
    /\ last' = NoOp
    /\ UNCHANGED <<genVars, win32, findVars, procEnv, initialEnv, activeEnv,
                   configsPaths, envCollection, storage, issued>>

\* The 'error' event: the promise rejects, runSetvars, getEnvironment and
\* initializeEnvironment throw.
SpawnError ==
    /\ \E run \in RunsAt("exec") :
          /\ run.child = "running"
          /\ runs' = RemoveRun(run)
    /\ collection' = EmptyMap
    /\ last' = [NoOp EXCEPT !.op = "error"]
    /\ UNCHANGED <<genVars, win32, findVars, procEnv, initialEnv, activeEnv,
                   configsPaths, envCollection, storage, issued>>

\* envCollection.push(name) without the includes test
IncludeEnvAlways(names, name) == Append(names, name)

\* if (!this.envCollection.includes(name)) this.envCollection.push(name)
IncludeEnv(names, name) ==
    IF name \in Range(names) THEN names ELSE Append(names, name)

\* Storage.writeEnvToExtensionStorage(name, map)
writeEnvToExtensionStorage(st, name, map) == Put(st, name, map)

\* Storage.readEnvFromExtensionStorage(name); EmptyMap stands for undefined
\* as well, which applyEnv treats alike.
readEnvFromExtensionStorage(st, name) ==
    IF name \in DOMAIN st THEN st[name] ELSE EmptyMap

\* runSetvars returns true after checkExistingTerminals, getEnvironment
\* returns it, and initializeEnvironment records the environment.
Store ==
    /\ \E run \in RunsAt("post") : runs' = RemoveRun(run)
    /\ envCollection' = IncludeEnv(envCollection, activeEnv)
    /\ storage' = writeEnvToExtensionStorage(storage, activeEnv, Values(collection))
    /\ last' = [NoOp EXCEPT !.op = "store", !.name = activeEnv,
                             !.fresh = activeEnv \notin Range(envCollection)]
    /\ UNCHANGED <<genVars, win32, findVars, procEnv, initialEnv, collection,
                   activeEnv, configsPaths, issued>>

-----------------------------------------------------------------------------
(* MultiRootEnv: clearEnvironment and switchEnv *)

\* restoreVscodeEnv: every variable of the collection goes back to its
\* value in initialEnv, and is deleted when that value is falsy.
restoreVscodeEnv(col, env) ==
    [k \in {x \in DOMAIN env : x \in DOMAIN col => ~Falsy(initialEnv, x)}
        \cup {x \in DOMAIN col : ~Falsy(initialEnv, x)} |->
        IF k \in DOMAIN col THEN initialEnv[k] ELSE env[k]]

\* clearEnvironment: restoreVscodeEnv, removeEnv(activeEnv), and the reset
\* of activeEnv.
ClearEnvironment ==
    /\ issued < MaxCmds
    /\ issued' = issued + 1
    /\ procEnv' = restoreVscodeEnv(collection, procEnv)
    /\ storage' = Remove(storage, activeEnv)
    /\ collection' = EmptyMap
    /\ activeEnv' = "Undefined"
    /\ last' = [NoOp EXCEPT !.op = "clear", !.name = activeEnv]
    /\ UNCHANGED <<genVars, win32, findVars, initialEnv, configsPaths,
                   envCollection, runs>>

\* applyEnv without this.collection.clear()
applyEnvKeeping(folder, col, env) ==
    LET stored == readEnvFromExtensionStorage(storage, folder)
    IN  [collection |-> Override(col, [k \in DOMAIN stored |->
                                          Mutator(stored[k], "Append")]),
         env |-> Override(restoreVscodeEnv(col, env), stored)]

\* applyEnv(folder)
applyEnv(folder, col, env) ==
    LET stored == readEnvFromExtensionStorage(storage, folder)
    IN  [collection |-> [k \in DOMAIN stored |-> Mutator(stored[k], "Append")],
         env |-> Override(restoreVscodeEnv(col, env), stored)]

\* switchEnv: the quick pick lists envCollection and 'Skip' (0: 'Skip' or
\* dismissed).
SwitchEnv ==
    /\ issued < MaxCmds
    /\ issued' = issued + 1
    /\ \E i \in 0..Len(envCollection) :
        IF i = 0
        THEN /\ last' = [NoOp EXCEPT !.op = "skipped"]
             /\ UNCHANGED <<genVars, win32, findVars, procEnv, initialEnv,
                            collection, activeEnv, configsPaths,
                            envCollection, storage, runs>>
        ELSE LET st == applyEnv(envCollection[i], collection, procEnv)
             IN  /\ collection' = st.collection
                 /\ procEnv' = st.env
                 /\ last' = [NoOp EXCEPT
                               !.op = "switch", !.name = envCollection[i],
                               !.differed = (DOMAIN collection # DOMAIN st.collection)]
                 /\ UNCHANGED <<genVars, win32, findVars, initialEnv,
                                activeEnv, configsPaths, envCollection,
                                storage, runs>>

-----------------------------------------------------------------------------
(* Configuration documents: vscode.workspace.getConfiguration(section)     *)
(* reads the document as it is now; update(key, value) is not awaited by   *)
(* the generators, so the written value is in flight until it lands.       *)

\* newItem.label / newItem.name after a dismissed input box
UndefinedLabel == "<undefined>"

UndefinedName == <<>>

\* The build targets getTargets lists.
Targets == {"all", "clean"}

\* What the user may type as a new task label.
TaskInputs == {"all", "clean", "renamed", UndefinedLabel}

\* The two entries makeLaunchFile adds to the list of executables.
TemporalTarget == "Put temporal target path a.out"

ManualTarget == "Provide path to the executable file manually"

\* The executables findExecutables lists, and the one the open dialog gives.
ExecFiles == {"app"}

ManualFile == "picked"

\* taskConfigValue: the command is built from the build system and target.
Task(label, system, target) ==
    [label |-> label, command |-> <<system, target>>]

\* debugConfig.name
LaunchName(selection, execFile) ==
    IF selection = "a.out" THEN <<"Launch_template">>
    ELSE <<"(gdb-oneapi)", execFile, "Launch">>

\* The module-level debugConfig object as it is when the module is loaded.
InitialDebugConfig ==
    [name |-> <<"(gdb-oneapi)", "${workspaceFolderBasename}", "Launch">>,
     program |-> "", preLaunchTask |-> "", postDebugTask |-> ""]

\* The first index from i on whose label is `label`, 0 when there is none:
\* the for-in loop of checkTaskItem, entered or continued at i.
NextSameLabel(items, label, i) ==
    IF \E j \in i..Len(items) : items[j].label = label
    THEN Min({j \in i..Len(items) : items[j].label = label})
    ELSE 0

\* The for-in loop of checkLaunchItem, entered or continued at i.
NextSameName(items, name, i) ==
    IF \E j \in i..Len(items) : items[j].name = name
    THEN Min({j \in i..Len(items) : items[j].name = name})
    ELSE 0

\* The documents as they are once the updates in flight have landed.
WrittenTasks ==
    IF tasksPending = <<>> THEN tasksDoc.items ELSE Last(tasksPending)

WrittenLaunch ==
    IF launchPending = <<>> THEN launchDoc ELSE Last(launchPending)

NoGen ==
    [pc |-> "idle", kind |-> "none", ret |-> "none", buildSystem |-> "cmake",
     config |-> <<>>, newItem |-> Task("", "", ""), idx |-> 0,
     selection |-> "", orig |-> <<>>, added |-> <<>>,
     tasksList |-> {}, dupAnswer |-> "none", addedAtDup |-> 0,
     colAtCall |-> <<>>, preAnswer |-> "none", postAnswer |-> "none"]

\* The generator returns v.
Returned(g, v) == [g EXCEPT !.pc = "idle", !.ret = v]

genUnchangedTasks == UNCHANGED <<launchDoc, launchPending, debugConfig>>

genUnchangedLaunch == UNCHANGED <<tasksDoc, tasksPending>>

notGen == <<win32, findVars, envVars>>

-----------------------------------------------------------------------------
(* LaunchConfigurator.makeTasksFile *)

\* The command up to the first target prompt.
MakeTasksFile ==
    /\ gen.pc = "idle"
    /\ \E folder \in BOOLEAN, makefile \in BOOLEAN :
          LET g == [NoGen EXCEPT !.kind = "tasks", !.orig = WrittenTasks]
          IN  gen' = IF ~folder \/ (makefile /\ win32)
                     THEN Returned(g, "false")
                     ELSE [g EXCEPT !.pc = "pickTarget",
                                    !.buildSystem = IF makefile THEN "make"
                                                    ELSE "cmake"]
    /\ UNCHANGED <<tasksDoc, tasksPending, picks, notGen>>
    /\ genUnchangedTasks

\* checkTaskItem found no (further) task of the same label: config.push,
\* taskConfig.update (not awaited), and the loop asks for the next target.
TaskAccepted(g, items, item) ==
    /\ tasksPending' = Append(tasksPending, Append(items, item))
    /\ gen' = [g EXCEPT !.pc = "pickTarget", !.config = Append(items, item),
                        !.newItem = item, !.added = Append(@, item)]

\* The for-in loop of checkTaskItem from index i on: the next task with
\* the label of the new one brings the duplicate prompt up.
CheckTaskFrom(g, items, item, i) ==
    LET j == NextSameLabel(items, item.label, i)
    IN  IF j = 0 THEN TaskAccepted(g, items, item)
        ELSE /\ gen' = [g EXCEPT !.pc = "taskDup", !.config = items,
                                 !.newItem = item, !.idx = j,
                                 !.addedAtDup = Len(g.added)]
             /\ UNCHANGED tasksPending

\* The answer to the target prompt ("": dismissed).
TasksPick ==
    /\ gen.pc = "pickTarget"
    /\ \E selection \in Targets \cup {""} :
          IF selection = ""
          THEN /\ gen' = Returned([gen EXCEPT !.dupAnswer = "none"], "true")
               /\ UNCHANGED <<tasksPending, picks>>
          ELSE /\ picks < MaxPicks
               /\ picks' = picks + 1
               /\ LET item == Task(selection, gen.buildSystem, selection)
                      g == [gen EXCEPT !.selection = selection,
                                       !.dupAnswer = "none"]
                  IN  IF ~tasksDoc.defined
                      THEN TaskAccepted(g, <<>>, item)
                      ELSE CheckTaskFrom(g, tasksDoc.items, item, 1)
    /\ UNCHANGED <<tasksDoc, notGen>>
    /\ genUnchangedTasks

\* The answer to "Task for target already exist".
TaskDupAnswer ==
    /\ gen.pc = "taskDup"
    /\ \E answer \in {"dismissed", "Skip target", "Rename task"} :
          gen' = IF answer = "dismissed" \/ answer = "Skip target"
                 THEN Returned([gen EXCEPT !.dupAnswer = answer], "false")
                 ELSE [gen EXCEPT !.pc = "taskRename", !.dupAnswer = answer]
    /\ UNCHANGED <<tasksDoc, tasksPending, picks, notGen>>
    /\ genUnchangedTasks

\* The input box for the new label, then `continue restartcheck`: the
\* for-in loop goes on with the next task.
TaskRename ==
    /\ gen.pc = "taskRename"
    /\ \E input \in TaskInputs :
          CheckTaskFrom(gen, gen.config, [gen.newItem EXCEPT !.label = input],
                        gen.idx + 1)
    /\ UNCHANGED <<tasksDoc, picks, notGen>>
    /\ genUnchangedTasks

\* The oldest update of 'tasks' in flight lands in the document.
TasksUpdateLands ==
    /\ tasksPending # <<>>
    /\ tasksDoc' = [defined |-> TRUE, items |-> Head(tasksPending)]
    /\ tasksPending' = Tail(tasksPending)
    /\ UNCHANGED <<gen, picks, notGen>>
    /\ genUnchangedTasks

-----------------------------------------------------------------------------
(* LaunchConfigurator.makeLaunchFile *)

\* The guard makeLaunchFile for ONEAPI_ROOT would be without its test of the
\* value.
EnvironmentIsSetWithoutRoot(col) == SETVARS_COMPLETED \in DOMAIN col

\* The two guards of makeLaunchFile pass: collection.get('SETVARS_COMPLETED')
\* is a mutator object, and the value of ONEAPI_ROOT is not empty.
EnvironmentIsSet(col) ==
    /\ SETVARS_COMPLETED \in DOMAIN col
    /\ ONEAPI_ROOT \in DOMAIN col
    /\ col[ONEAPI_ROOT].value # <<>>

\* The command up to the first executable prompt.
MakeLaunchFile ==
    /\ gen.pc = "idle"
    /\ \E folder \in BOOLEAN :
          LET g == [NoGen EXCEPT !.kind = "launch", !.orig = WrittenLaunch,
                                 !.colAtCall = collection]
          IN  gen' = IF ~EnvironmentIsSet(collection) \/ ~folder
                     THEN Returned(g, "false")
                     ELSE [g EXCEPT !.pc = "pickExec"]
    /\ UNCHANGED <<launchDoc, launchPending, debugConfig, picks, notGen>>
    /\ genUnchangedLaunch

\* tasksList of addTasksToLaunchConfig: the labels of the tasks there are
\* when it is called.
TasksList == {tasksDoc.items[i].label : i \in 1..Len(tasksDoc.items)}

\* The answer to the executable prompt ("": dismissed), the open dialog
\* when the path is given manually, then the assignments to debugConfig up
\* to the first prompt of addTasksToLaunchConfig.
LaunchPick ==
    /\ gen.pc = "pickExec"
    /\ \E choice \in ExecFiles \cup {TemporalTarget, ManualTarget, ""},
          dialog \in BOOLEAN :
          IF choice = ""
          THEN /\ gen' = Returned([gen EXCEPT !.dupAnswer = "none"], "true")
               /\ UNCHANGED <<debugConfig, picks>>
          ELSE IF choice = ManualTarget /\ ~dialog
          THEN /\ gen' = Returned([gen EXCEPT !.dupAnswer = "none"], "false")
               /\ UNCHANGED <<debugConfig, picks>>
          ELSE /\ picks < MaxPicks
               /\ picks' = picks + 1
               /\ LET selection == IF choice = TemporalTarget THEN "a.out"
                                   ELSE choice
                      execFile == IF choice = ManualTarget THEN ManualFile
                                  ELSE selection
                  IN  /\ debugConfig' =
                            [debugConfig EXCEPT
                               !.name = LaunchName(selection, execFile),
                               !.program = execFile]
                      /\ gen' = [gen EXCEPT !.pc = "preTask",
                                            !.selection = selection,
                                            !.config = launchDoc,
                                            !.tasksList = TasksList,
                                            !.dupAnswer = "none"]
    /\ UNCHANGED <<launchDoc, launchPending, notGen>>
    /\ genUnchangedLaunch

\* addTasksToLaunchConfig: the answer to the preLaunchTask prompt ("": the
\* Skip entry, or dismissed).
PreLaunchAnswer ==
    /\ gen.pc = "preTask"
    /\ \E task \in gen.tasksList \cup {""} :
          /\ debugConfig' = IF task # ""
                            THEN [debugConfig EXCEPT !.preLaunchTask = task]
                            ELSE debugConfig
          /\ gen' = [gen EXCEPT !.pc = "postTask", !.preAnswer = task]
    /\ UNCHANGED <<launchDoc, launchPending, picks, notGen>>
    /\ genUnchangedLaunch

\* checkLaunchItem found no (further) configuration of the same name:
\* configurations.push(debugConfig), launchConfig.update (not awaited), and
\* the loop asks for the next executable.
LaunchAccepted(g, items, item) ==
    /\ launchPending' = Append(launchPending, Append(items, item))
    /\ gen' = [g EXCEPT !.pc = "pickExec", !.config = Append(items, item),
                        !.added = Append(@, item)]

\* The for-in loop of checkLaunchItem from index i on.
CheckLaunchFrom(g, items, item, i) ==
    LET j == NextSameName(items, item.name, i)
    IN  IF j = 0 THEN LaunchAccepted(g, items, item)
        ELSE /\ gen' = [g EXCEPT !.pc = "launchDup", !.idx = j,
                                 !.addedAtDup = Len(g.added)]
             /\ UNCHANGED launchPending

\* addTasksToLaunchConfig: the answer to the postDebugTask prompt, then
\* checkLaunchItem.
PostDebugAnswer ==
    /\ gen.pc = "postTask"
    /\ \E task \in gen.tasksList \cup {""} :
          LET dc == IF task # ""
                    THEN [debugConfig EXCEPT !.postDebugTask = task]
                    ELSE debugConfig
          IN  /\ debugConfig' = dc
              /\ CheckLaunchFrom([gen EXCEPT !.postAnswer = task],
                                 gen.config, dc, 1)
    /\ UNCHANGED <<launchDoc, picks, notGen>>
    /\ genUnchangedLaunch

\* selection === `Skip target ` (with the trailing blank): no entry of the
\* prompt is spelt like that.
IsSkipTargetBlank(answer) == answer = "Skip target "

\* The answer to "Launch configuration for target already exist".
LaunchDupAnswer ==
    /\ gen.pc = "launchDup"
    /\ \E answer \in {"dismissed", "Skip target", "Rename configuration"} :
          gen' = IF answer = "dismissed" \/ IsSkipTargetBlank(answer)
                 THEN Returned([gen EXCEPT !.dupAnswer = answer], "false")
                 ELSE [gen EXCEPT !.pc = "launchRename", !.dupAnswer = answer]
    /\ UNCHANGED <<launchDoc, launchPending, debugConfig, picks, notGen>>
    /\ genUnchangedLaunch

\* What the user may type as a new configuration name.
LaunchInputs == {<<"Launch_template">>, <<"renamed">>, debugConfig.name,
                 UndefinedName}

\* The input box for the new name, then `continue restartcheck`.
LaunchRename ==
    /\ gen.pc = "launchRename"
    /\ \E input \in LaunchInputs :
          LET dc == [debugConfig EXCEPT !.name = input]
          IN  /\ debugConfig' = dc
              /\ CheckLaunchFrom(gen, gen.config, dc, gen.idx + 1)
    /\ UNCHANGED <<launchDoc, picks, notGen>>
    /\ genUnchangedLaunch

\* The oldest update of 'configurations' in flight lands in the document.
LaunchUpdateLands ==
    /\ launchPending # <<>>
    /\ launchDoc' = Head(launchPending)
    /\ launchPending' = Tail(launchPending)
    /\ UNCHANGED <<gen, debugConfig, picks, notGen>>
    /\ genUnchangedLaunch

-----------------------------------------------------------------------------
(* Initial states *)

NoFind == [FindStart EXCEPT !.source = "not called"]

NoAnswers == [cont |-> "dismissed", pickPath |-> 0, pickHome |-> 0]

\* The environments the editor may have been started in.
InitialEnvs ==
    LET base == Put(Put(EmptyMap, PATH, <<"x">>), EMPTYVAR, <<>>)
    IN  {base, Put(base, SETVARS_COMPLETED, <<"1">>)}

\* The collection the editor kept from an earlier session.
PersistedCollections ==
    {EmptyMap,
     Put(Put(EmptyMap, SETVARS_COMPLETED, Mutator(<<"1">>, "Append")),
         ONEAPI_ROOT, Mutator(<<"x", "y">>, "Append"))}

\* setupVscodeEnv: the collection is copied into process.env after the
\* snapshot is taken.
setupVscodeEnv(env, col) == Override(env, Values(col))

\* The locator's world when the claim is not about the locator: the script
\* is at the global installation path, or nowhere.
PlainWorlds(w32) ==
    {w \in Worlds(w32) :
        /\ ~w.rootSet /\ ~w.envRoot
        /\ w.pathScan = [throws |-> FALSE, n |-> 0]
        /\ w.homeScan = [throws |-> FALSE, n |-> 0]
        /\ w.files \subseteq {GlobalScript(w)}}

\* The state after the constructors of OneApiEnv and MultiRootEnv, the
\* editor holding one of the collections Persisted and the SETVARS_CONFIG
\* setting being one of Settings.
Constructed(Persisted, Settings) ==
    /\ initialEnv \in InitialEnvs
    /\ collection \in Persisted
    /\ procEnv = setupVscodeEnv(initialEnv, collection)
    /\ activeEnv = "Undefined"
    /\ configsPaths \in Settings
    /\ envCollection = <<>>
    /\ storage = writeEnvToExtensionStorage(EmptyMap, "Undefined", EmptyMap)
    /\ runs = EmptyBag
    /\ issued = 0
    /\ last = NoOp

FindIdle ==
    /\ findRes = NoFind
    /\ findAns = NoAnswers

\* No generator has run and the workspace has no tasks and no launch
\* configurations.
GenIdle ==
    /\ tasksDoc = [defined |-> FALSE, items |-> <<>>]
    /\ tasksPending = <<>>
    /\ launchDoc = <<>>
    /\ launchPending = <<>>
    /\ debugConfig = InitialDebugConfig
    /\ gen = NoGen
    /\ picks = 0

-----------------------------------------------------------------------------
(* Specification of the script locator alone *)

InitFind ==
    /\ win32 \in BOOLEAN
    /\ world \in Worlds(win32)
    /\ FindIdle
    /\ GenIdle
    /\ initialEnv = EmptyMap
    /\ collection = EmptyMap
    /\ procEnv = EmptyMap
    /\ activeEnv = "Undefined"
    /\ configsPaths = <<>>
    /\ envCollection = <<>>
    /\ storage = EmptyMap
    /\ runs = EmptyBag
    /\ issued = 0
    /\ last = NoOp

\* One call of findSetvarsPath with the user's answers `ans`.
FindCall ==
    /\ findRes = NoFind
    /\ \E ans \in AnswersFor(world) :
          /\ findRes' = findSetvarsPath(world, ans)
          /\ findAns' = ans
    /\ UNCHANGED <<win32, world, envVars, genVars>>

NextFind == FindCall

SpecFind == InitFind /\ [][NextFind]_vars

-----------------------------------------------------------------------------
(* Specification of one capture, from every constructed state, its output  *)
(* cut into chunks in every way                                            *)

InitCapture ==
    /\ win32 \in BOOLEAN
    /\ world \in PlainWorlds(win32)
    /\ FindIdle
    /\ GenIdle
    /\ Constructed(PersistedCollections, {<<>>, <<ConfigFile>>})

OneCapture == [cmds |-> 1, runs |-> 1]

NextCapture ==
    \/ \E d \in BOOLEAN : InitializeEnvironment(OneCapture, d)
    \/ ConfigAnswer
    \/ CancelEarly
    \/ Spawn
    \/ Data("anywhere")
    \/ ChildExit0
    \/ ChildFail("anywhere")
    \/ Cancel("anywhere")
    \/ Close
    \/ SpawnError
    \/ Store

SpecCapture == InitCapture /\ [][NextCapture]_vars

-----------------------------------------------------------------------------
(* Specifications of the environment commands: the initialize calls one    *)
(* after the other (SpecCommands) and overlapping (SpecOverlap); the       *)
(* output of a capture arrives in one chunk                                *)

InitCommands ==
    /\ win32 = FALSE
    /\ world \in {w \in PlainWorlds(win32) : w.files = {}}
    /\ FindIdle
    /\ GenIdle
    /\ Constructed({EmptyMap}, {<<ConfigFile>>})

\* The steps of the calls in progress.
RunSteps ==
    \/ ConfigAnswer
    \/ CancelEarly
    \/ Spawn
    \/ Data("whole")
    \/ ChildExit0
    \/ ChildFail("whole")
    \/ Cancel("whole")
    \/ Close
    \/ SpawnError
    \/ Store

OneAtATime == [cmds |-> MaxCmds, runs |-> 1]

NextCommands ==
    \/ \E d \in BOOLEAN : InitializeEnvironment(OneAtATime, d)
    \/ RunSteps
    \/ ClearEnvironment
    \/ SwitchEnv

SpecCommands == InitCommands /\ [][NextCommands]_vars

\* Some subprocess has written output that no 'data' event has delivered.
DataPending == \E run \in RunsAt("exec") : run.rem # <<>>

\* What the event loop and the operating system guarantee to a call in
\* progress: the prompt is answered, the task of withProgress runs, written
\* output does not stay undelivered for ever, the subprocess ends, its
\* streams close, and the continuation of runSetvars runs.
RunFairness ==
    /\ WF_vars(ConfigAnswer)
    /\ WF_vars(Spawn)
    /\ []<>(~DataPending)
    /\ WF_vars(ChildExit0 \/ ChildFail("whole"))
    /\ WF_vars(Close)
    /\ WF_vars(Store)

\* One initialize command and the steps of its call, under RunFairness.
NextOneRun ==
    \/ \E d \in BOOLEAN : InitializeEnvironment(OneCapture, d)
    \/ RunSteps

SpecOneRunFair == InitCommands /\ [][NextOneRun]_vars /\ RunFairness

Overlapping == [cmds |-> MaxCmds, runs |-> MaxRuns]

NextOverlap ==
    \/ \E d \in BOOLEAN : InitializeEnvironment(Overlapping, d)
    \/ RunSteps
    \/ ClearEnvironment
    \/ SwitchEnv

SpecOverlap == InitCommands /\ [][NextOverlap]_vars

-----------------------------------------------------------------------------
(* Specification of the generators: the two commands one after the other,  *)
(* the configuration updates landing at any later time                     *)

\* The 'tasks' section the workspace may have.
InitialTasks ==
    {[defined |-> FALSE, items |-> <<>>],
     [defined |-> TRUE, items |-> <<>>],
     [defined |-> TRUE, items |-> <<Task("all", "cmake", "all")>>]}

\* The launch configurations the workspace may have.
InitialLaunch ==
    {<<>>,
     <<[InitialDebugConfig EXCEPT !.name = LaunchName("a.out", "a.out"),
                                  !.program = "a.out"]>>}

\* The collections the generators may find: empty, after a capture that
\* exported no ONEAPI_ROOT, after a complete capture.
GeneratorCollections ==
    PersistedCollections
        \cup {Put(EmptyMap, SETVARS_COMPLETED, Mutator(<<"1">>, "Append"))}

InitGen ==
    /\ win32 \in BOOLEAN
    /\ world \in {w \in PlainWorlds(win32) : w.files = {}}
    /\ FindIdle
    /\ Constructed(GeneratorCollections, {<<>>})
    /\ tasksDoc \in InitialTasks
    /\ tasksPending = <<>>
    /\ launchDoc \in InitialLaunch
    /\ launchPending = <<>>
    /\ debugConfig = InitialDebugConfig
    /\ gen = NoGen
    /\ picks = 0

NextGen ==
    \/ MakeTasksFile
    \/ TasksPick
    \/ TaskDupAnswer
    \/ TaskRename
    \/ TasksUpdateLands
    \/ MakeLaunchFile
    \/ LaunchPick
    \/ PreLaunchAnswer
    \/ PostDebugAnswer
    \/ LaunchDupAnswer
    \/ LaunchRename
    \/ LaunchUpdateLands

SpecGen == InitGen /\ [][NextGen]_vars

\* The launch generator beside clearEnvironment, which empties the
\* collection the generator was constructed with: a session started
\* without SETVARS_COMPLETED, in a workspace with no tasks and no launch
\* configurations.
InitLaunch ==
    /\ win32 = FALSE
    /\ world \in {w \in PlainWorlds(win32) : w.files = {}}
    /\ FindIdle
    /\ Constructed(GeneratorCollections, {<<>>})
    /\ SETVARS_COMPLETED \notin DOMAIN initialEnv
    /\ tasksDoc = [defined |-> FALSE, items |-> <<>>]
    /\ tasksPending = <<>>
    /\ launchDoc = <<>>
    /\ launchPending = <<>>
    /\ debugConfig = InitialDebugConfig
    /\ gen = NoGen
    /\ picks = 0

NextLaunch ==
    \/ MakeLaunchFile
    \/ LaunchPick
    \/ PreLaunchAnswer
    \/ PostDebugAnswer
    \/ LaunchDupAnswer
    \/ LaunchRename
    \/ LaunchUpdateLands
    \/ ClearEnvironment

SpecLaunch == InitLaunch /\ [][NextLaunch]_vars

-----------------------------------------------------------------------------
(* Claims about the script locator (SpecFind) *)

\* What one source yields on its own, whatever was consulted before it.
Yield(src, w, ans) ==
    CASE src = "setting" ->
            IF w.rootSet /\ Join(SettingRoot, SetvarsName(w.win32)) \in w.files
            THEN Join(SettingRoot, SetvarsName(w.win32)) ELSE NoPath
      [] src = "PATH" ->
            IF w.pathScan.throws \/ w.pathScan.n = 0 THEN NoPath
            ELSE IF w.pathScan.n = 1
            THEN Join(PathDir(1), SetvarsName(w.win32))
            ELSE IF ans.pickPath = 0 THEN NoPath ELSE PathDir(ans.pickPath)
      [] src = "ONEAPI_ROOT" ->
            IF EnvRootScript(w) \in w.files THEN EnvRootScript(w) ELSE NoPath
      [] src = "global" ->
            IF GlobalScript(w) \in w.files THEN GlobalScript(w) ELSE NoPath
      [] src = "user" ->
            IF UserScript \in w.files THEN UserScript ELSE NoPath
      [] src = "home" ->
            IF w.homeScan.throws \/ w.homeScan.n = 0 THEN NoPath
            ELSE IF w.homeScan.n = 1 THEN HomeFile(1)
            ELSE IF ans.pickHome = 0 THEN NoPath ELSE HomeFile(ans.pickHome)

SourcePos(src) == CHOOSE i \in 1..Len(SourceOrder) : SourceOrder[i] = src

FindCalled == findRes # NoFind

\* C2: findSetvarsPath consults its sources in the fixed order setting,
\* PATH scan, ONEAPI_ROOT variable, global path, per-user path, home scan;
\* no source is consulted after one that yielded a path, and the result is
\* what the first yielding source yielded.
C2_FixedOrderFirstMatch ==
    FindCalled =>
        LET c == findRes.consulted
        IN  /\ \A i, j \in 1..Len(c) :
                  i < j => SourcePos(c[i]) < SourcePos(c[j])
            /\ \A i \in 1..(Len(c) - 1) : Yield(c[i], world, findAns) = NoPath
            /\ findRes.result =
                  IF Len(c) = 0 THEN NoPath ELSE Yield(Last(c), world, findAns)

\* The per-user path yields after four sources yielded nothing, and the
\* home scan, which would have listed a script, is not consulted.
C2_Witness ==
    /\ FindCalled
    /\ findRes.source = "user"
    /\ findRes.consulted = <<"setting", "PATH", "ONEAPI_ROOT", "global", "user">>
    /\ world.homeScan.n > 0

ManyFrom(src, scan) ==
    src \in Range(findRes.consulted) /\ ~scan.throws /\ scan.n > 1

\* C10: a candidate-selection prompt is shown exactly when the PATH scan or
\* the home-directory scan, once run, lists more than one candidate; the
\* result is then the chosen candidate, and no path when the prompt is
\* dismissed.
C10_CandidatePrompt ==
    FindCalled =>
        LET shown == "candidates" \in Range(findRes.prompts)
            manyPath == ManyFrom("PATH", world.pathScan)
            manyHome == ManyFrom("home", world.homeScan)
        IN  /\ shown <=> (manyPath \/ manyHome)
            /\ manyPath =>
                  findRes.result = IF findAns.pickPath = 0 THEN NoPath
                                   ELSE PathDir(findAns.pickPath)
            /\ (manyHome /\ ~manyPath) =>
                  findRes.result = IF findAns.pickHome = 0 THEN NoPath
                                   ELSE HomeFile(findAns.pickHome)

\* The home scan lists several scripts and the user dismisses the prompt.
C10_Witness ==
    /\ FindCalled
    /\ ManyFrom("home", world.homeScan)
    /\ "candidates" \in Range(findRes.prompts)
    /\ findAns.pickHome = 0
    /\ findRes.result = NoPath

-----------------------------------------------------------------------------
(* Claims about one capture (SpecCapture) *)

\* The variables of `after` that are new or differ from `before`.
Delta(before, after) ==
    [k \in {x \in DOMAIN after : x \notin DOMAIN before \/ before[x] # after[x]}
        |-> after[k]]

\* C1: after a capture that started with an empty collection, was not
\* cancelled and whose subprocess exited with code 0, the collection holds
\* exactly the variables of the dump that are new or whose value differs
\* from process.env as it was before the capture, each with its dumped
\* value.
C1_CaptureIsDelta ==
    \A run \in RunsAt("post") :
        (run.child = "exit0" /\ ~run.cancelled /\ run.startedEmpty)
            => Values(collection) = Delta(run.envBefore, run.dumpEnv)

\* C3: when the user cancels while the subprocess is running, the
\* subprocess is killed, and once execSetvarsCatch has resolved the
\* collection is empty, whatever 'data' events came before and after the
\* cancellation.
C3_CancelWhileRunningLeavesNothing ==
    \A run \in BagToSet(runs) :
        run.killedRunning =>
            /\ run.child = "killed"
            /\ run.pc = "post" => collection = EmptyMap

\* A cancelled capture has resolved after a 'data' event that came after
\* the cancellation and wrote ONEAPI_ROOT to process.env.
C3_Witness ==
    \E run \in RunsAt("post") :
        /\ run.killedRunning
        /\ run.lateData
        /\ ONEAPI_ROOT \in DOMAIN procEnv
        /\ ONEAPI_ROOT \notin DOMAIN run.envBefore

-----------------------------------------------------------------------------
(* Claims about the environment commands (SpecCommands, SpecOverlap) *)

Occurrences(names, name) == Cardinality({i \in 1..Len(names) : names[i] = name})

\* C4: when initializeEnvironment has recorded a capture, storage holds
\* under the active environment name the key/value content the collection
\* has at that moment and the name is in envCollection exactly once; a
\* second initialization under the same name overwrites the stored map
\* and adds no second entry.
C4_StoredUnderActiveName ==
    /\ \A i \in 1..Len(envCollection) :
          Occurrences(envCollection, envCollection[i]) = 1
    /\ last.op = "store" =>
          /\ last.name = activeEnv
          /\ activeEnv \in DOMAIN storage
          /\ storage[activeEnv] = Values(collection)
          /\ Occurrences(envCollection, activeEnv) = 1

\* An environment is recorded a second time under a name already in
\* envCollection, with a non-empty map.
C4_Witness ==
    /\ last.op = "store"
    /\ ~last.fresh
    /\ storage[activeEnv] # EmptyMap
    /\ Len(envCollection) = 1

\* C5: after switchEnv selects a stored environment, the collection holds
\* exactly the key/value pairs stored for it and process.env has the
\* stored value of each of those variables.
C5_SwitchAppliesStored ==
    (last.op = "switch" /\ last.name \in DOMAIN storage) =>
        /\ Values(collection) = storage[last.name]
        /\ \A k \in DOMAIN storage[last.name] :
              k \in DOMAIN procEnv /\ procEnv[k] = storage[last.name][k]

\* switchEnv has replaced a collection that held other variables than the
\* selected environment.
C5_Witness ==
    /\ last.op = "switch"
    /\ last.differed
    /\ last.name \in DOMAIN storage
    /\ storage[last.name] # EmptyMap

\* How many subprocesses are spawned and not yet closed.
Capturing ==
    LET S == RunsAt("exec")
    IN  IF S = {} THEN 0
        ELSE IF Cardinality(S) = 1 /\ \A run \in S : CopiesIn(run, runs) = 1
        THEN 1 ELSE 2

\* C6: at any time at most one capture subprocess is spawned and not yet
\* closed.
C6_OneSubprocessAtATime == Capturing <= 1

-----------------------------------------------------------------------------
(* Claims about the generators (SpecGen) *)

\* The entry an update of a document appends is the last of the written
\* list; the entries before it are those the generator read.
NewLabelIsFresh(list) ==
    \A i \in 1..(Len(list) - 1) : list[i].label # list[Len(list)].label

NewNameIsFresh(list) ==
    \A i \in 1..(Len(list) - 1) : list[i].name # list[Len(list)].name

\* C7: a generator never appends an entry whose label (tasks) or name
\* (launch configurations) equals that of an entry already in the list it
\* appends to.
C7_NoDuplicateAppended ==
    [][/\ Len(tasksPending') > Len(tasksPending)
          => NewLabelIsFresh(Last(tasksPending'))
       /\ Len(launchPending') > Len(launchPending)
          => NewNameIsFresh(Last(launchPending'))]_vars

\* C8: when the user answers the duplicate prompt with 'Skip target' or
\* dismisses it, the generator returns false without asking for a new name
\* and without appending the entry.
C8_SkipLeavesDocument ==
    gen.dupAnswer \in {"Skip target", "dismissed"} =>
        /\ gen.pc = "idle"
        /\ gen.ret = "false"
        /\ Len(gen.added) = gen.addedAtDup

\* C9: once the updates issued by a run of the tasks generator have
\* landed, the task list is the list the run started from followed by the
\* tasks of the accepted selections, one each, in the order accepted.
C9_EveryAcceptedTaskKept ==
    (gen.kind = "tasks" /\ tasksPending = <<>>) =>
        tasksDoc.items = gen.orig \o gen.added

-----------------------------------------------------------------------------
(* Claims about the outcome of a capture (SpecCommands, SpecCapture) *)

\* The capture of `run` succeeded: its subprocess exited with code 0 and
\* the user did not cancel it.
Succeeded(run) == run.child = "exit0" /\ ~run.cancelled

\* C11: initializeEnvironment records an environment (a name in
\* envCollection, a map in storage) only for a capture that succeeded; a
\* cancelled capture and one whose subprocess failed are not recorded.
C11_OnlySuccessRecorded ==
    [][last'.op = "store" =>
          \E run \in RunsAt("post") :
             runs' = RemoveRun(run) /\ Succeeded(run)]_vars

\* C12: every call of runSetvars eventually completes: a call in progress
\* is over at some later time, whether its subprocess exits normally or
\* with an error, fails to spawn, or the user cancels during the run or
\* before the subprocess is spawned.
C12_RunSetvarsCompletes == (InProgress > 0) ~> (InProgress = 0)

\* C13: once the subprocess has closed with a non-zero exit code or a
\* signal, or has failed to spawn, the collection is empty, whatever the
\* 'data' events before the failure put into it.
C13_FailureLeavesNothing ==
    /\ \A run \in RunsAt("post") :
          run.child \in {"exitN", "killed"} => collection = EmptyMap
    /\ last.op = "error" => collection = EmptyMap

\* A subprocess has closed with a non-zero exit code after a 'data' event
\* had written ONEAPI_ROOT to process.env.
C13_Witness ==
    \E run \in RunsAt("post") :
        /\ run.child = "exitN"
        /\ ONEAPI_ROOT \in DOMAIN procEnv
        /\ ONEAPI_ROOT \notin DOMAIN run.envBefore

\* The name of the configuration a capture used: the base name of the
\* selected config file, 'Default' when none was used.
ConfigName(run) == IF run.cfg = NoPath THEN "Default" ELSE Base(run.cfg)

\* C14: after a successful capture the environment is recorded under the
\* name of the configuration that was used: the base name of the selected
\* config file, or 'Default' when no config file is used, for the default
\* command as for a custom one whose config prompt is skipped.
C14_StoredUnderConfigName ==
    [][last'.op = "store" =>
          \A run \in RunsAt("post") :
             (runs' = RemoveRun(run) /\ Succeeded(run))
                => last'.name = ConfigName(run)]_vars

-----------------------------------------------------------------------------
(* Claims about the located path (SpecFind) *)

\* p is a setvars script that exists: a file existsSync finds, or a file
\* the find command of the home scan has listed.
ExistingScript(w, p) ==
    /\ Last(p) = SetvarsName(w.win32)
    /\ \/ p \in w.files
       \/ \E i \in 1..w.homeScan.n : p = HomeFile(i)

\* C15: every path findSetvarsPath returns is the path of an existing
\* setvars script file, whichever source produced it.
C15_ReturnsExistingScript ==
    (FindCalled /\ findRes.result # NoPath)
        => ExistingScript(world, findRes.result)

-----------------------------------------------------------------------------
(* Claims about the guard of initializeEnvironment (SpecCapture) *)

\* The snapshot taken at construction has a non-empty SETVARS_COMPLETED.
SnapshotCompleted ==
    /\ SETVARS_COMPLETED \in DOMAIN initialEnv
    /\ initialEnv[SETVARS_COMPLETED] # <<>>

-----------------------------------------------------------------------------
(* Claims about the launch generator (SpecLaunch) *)

\* The collection col has SETVARS_COMPLETED and a non-empty ONEAPI_ROOT.
HasOneApi(col) ==
    /\ SETVARS_COMPLETED \in DOMAIN col
    /\ ONEAPI_ROOT \in DOMAIN col
    /\ col[ONEAPI_ROOT].value # <<>>

\* A step in which makeLaunchFile is called.
LaunchCalled == gen.pc = "idle" /\ gen' # gen /\ gen'.kind = "launch"

\* A call of makeLaunchFile that finds the collection without
\* SETVARS_COMPLETED or without a non-empty ONEAPI_ROOT returns false,
\* shows no target prompt and leaves the launch configurations alone.
RefusedWithoutOneApi ==
    (LaunchCalled /\ ~HasOneApi(collection)) =>
        /\ gen'.pc = "idle"
        /\ gen'.ret = "false"
        /\ launchDoc' = launchDoc
        /\ launchPending' = launchPending

\* A step in which a launch configuration is added.
LaunchAdded == Len(launchPending') > Len(launchPending)

\* C17: makeLaunchFile returns false without showing any target prompt and
\* without changing the launch configurations when the collection, at the
\* call, lacks SETVARS_COMPLETED or a non-empty ONEAPI_ROOT; a launch
\* configuration is only added by a call that found both in the collection.
C17_RefusedWithoutOneApi ==
    [][/\ RefusedWithoutOneApi
       /\ LaunchAdded => HasOneApi(gen.colAtCall)]_vars

\* makeLaunchFile has returned false on a collection that has
\* SETVARS_COMPLETED and no ONEAPI_ROOT.
C17_Witness ==
    /\ gen.kind = "launch"
    /\ gen.pc = "idle"
    /\ gen.ret = "false"
    /\ SETVARS_COMPLETED \in DOMAIN gen.colAtCall
    /\ ~HasOneApi(gen.colAtCall)
    /\ launchPending = <<>>

\* C17 as stated: the same, and a launch configuration is only ever added
\* while both variables are in the collection.
C17_AddedWhilePresent ==
    [][/\ RefusedWithoutOneApi
       /\ LaunchAdded => HasOneApi(collection)]_vars

\* C18: when the user skips or dismisses the preLaunchTask prompt (the
\* postDebugTask prompt), the launch configuration added in that iteration
\* has an empty preLaunchTask (postDebugTask), whatever an earlier iteration
\* or an earlier run chose.
C18_SkippedTaskIsEmpty ==
    [][LaunchAdded =>
          LET added == Last(Last(launchPending'))
          IN  /\ gen'.preAnswer = "" => added.preLaunchTask = ""
              /\ gen'.postAnswer = "" => added.postDebugTask = ""]_vars

-----------------------------------------------------------------------------
(* Claims about clearEnvironment (SpecCommands) *)

\* A step in which clearEnvironment runs while no capture is in progress.
ClearedAtRest ==
    /\ issued' = issued + 1
    /\ last'.op = "clear"
    /\ runs = EmptyBag

\* C19: after clearEnvironment, following any sequence of initializations
\* (successful, failed or cancelled) and switchEnv calls, process.env agrees
\* with the snapshot taken at construction on every variable they wrote. The
\* session starts with an empty collection, so process.env then is the
\* snapshot, only these operations write it, and agreement on what they
\* wrote is equality with the snapshot, empty-string values included.
C19_ClearRestoresSnapshot == [][ClearedAtRest => procEnv' = initialEnv]_vars

=============================================================================
